---- MODULE Spec2Model ----
(***************************************************************************)
(* A model of the Wix webhook receiver: load_to_drive (src/main.py), its   *)
(* helpers (src/helpers.py), the response builders                         *)
(* (src/flask_responses.py) and the Google Drive wrapper                   *)
(* (src/google_toolbox/gdrive.py).                                         *)
(*                                                                         *)
(* A Python call either returns a value or raises.  An operator that       *)
(* models a call yields a record with a field `raised`; when it is TRUE    *)
(* the field `exc` names the exception class.                              *)
(***************************************************************************)
EXTENDS Integers, Sequences, FiniteSets, TLC

(***************************************************************************)
(* Bounds of the model.                                                    *)
(***************************************************************************)
\* number of load_to_drive invocations in one behaviour
MaxInvocations == 2
\* number of failures of the collaborators (Drive API, credential, codec)
\* in one behaviour
MaxFaults == 1
\* number of rows of the datasets is_new_data is applied to
MaxRows == 2
\* number of top-level keys of the payloads flat_dictionary is applied to
MaxKeys == 2

(***************************************************************************)
(* JSON values: the request body after request.get_json().                 *)
(***************************************************************************)
StrV(s) == [t |-> "str", s |-> s]
IntV(n) == [t |-> "int", n |-> n]
NullV == [t |-> "null"]
\* a mapping is the sequence of its (key, value) pairs, in insertion order
DictV(items) == [t |-> "dict", items |-> items]
ListV(elems) == [t |-> "list", elems |-> elems]

\* the Python dict with no key
EmptyDict == [k \in {} |-> NullV]

\* Python truthiness of a scalar: None, "" and 0 are falsy
Truthy(v) ==
    CASE v.t = "null" -> FALSE
      [] v.t = "str" -> v.s # ""
      [] v.t = "int" -> v.n # 0
      [] v.t = "dict" -> Len(v.items) > 0
      [] v.t = "list" -> Len(v.elems) > 0

RECURSIVE PyRepr(_)
RECURSIVE ReprItems(_, _)
RECURSIVE ReprElems(_, _)
\* repr(v), which str() of a container applies to its elements
PyRepr(v) ==
    CASE v.t = "null" -> "None"
      [] v.t = "str" -> "'" \o v.s \o "'"
      [] v.t = "int" -> ToString(v.n)
      [] v.t = "dict" -> "{" \o ReprItems(v.items, 1) \o "}"
      [] v.t = "list" -> "[" \o ReprElems(v.elems, 1) \o "]"
ReprItems(items, i) ==
    IF i > Len(items) THEN ""
    ELSE (IF i > 1 THEN ", " ELSE "")
         \o "'" \o items[i][1] \o "': " \o PyRepr(items[i][2])
         \o ReprItems(items, i + 1)
ReprElems(elems, i) ==
    IF i > Len(elems) THEN ""
    ELSE (IF i > 1 THEN ", " ELSE "") \o PyRepr(elems[i]) \o ReprElems(elems, i + 1)

\* str(v)
PyStr(v) == IF v.t = "str" THEN v.s ELSE PyRepr(v)

RECURSIVE JoinStr(_, _)
\* ", ".join(str(v) for v in value)
JoinStr(elems, i) ==
    IF i > Len(elems) THEN ""
    ELSE (IF i > 1 THEN ", " ELSE "") \o PyStr(elems[i]) \o JoinStr(elems, i + 1)

(***************************************************************************)
(* helpers.flat_dictionary                                                 *)
(***************************************************************************)
RECURSIVE flat_raises(_)
\* flat_dictionary raises AttributeError when it reaches `.items()` of a
\* value that is no mapping: the argument itself, or an element of a list
\* whose first element is a mapping
flat_raises(data) ==
    \/ data.t # "dict"
    \/ \E i \in 1..Len(data.items) :
        LET value == data.items[i][2] IN
        \/ value.t = "dict" /\ flat_raises(value)
        \/ /\ value.t = "list"
           /\ Len(value.elems) > 0
           /\ value.elems[1].t = "dict"
           /\ \E j \in 1..Len(value.elems) : flat_raises(value.elems[j])

RECURSIVE flat_dictionary(_, _)
RECURSIVE flat_items(_, _, _, _)
RECURSIVE flat_list(_, _, _, _)
\* the flat record as a Python dict: a function from its keys
flat_dictionary(data, prefix) == flat_items(data.items, prefix, 1, EmptyDict)
\* the loop with new_key = f"{prefix}_{key}" also at the root
flat_items_always_prefixed(items, prefix, i, result) ==
    IF i > Len(items) THEN result
    ELSE LET key == items[i][1]
             value == items[i][2]
             new_key == prefix \o "_" \o key
             step ==
                 IF value.t = "dict"
                 THEN flat_dictionary(value, new_key) @@ result
                 ELSE IF value.t = "list"
                 THEN IF Len(value.elems) > 0 /\ value.elems[1].t = "dict"
                      THEN flat_list(value.elems, new_key, 1, result)
                      ELSE (new_key :> StrV(JoinStr(value.elems, 1))) @@ result
                 ELSE (new_key :> value) @@ result
         IN flat_items(items, prefix, i + 1, step)
\* the loop storing nothing for an empty list
flat_items_skipping_empty_list(items, prefix, i, result) ==
    IF i > Len(items) THEN result
    ELSE LET key == items[i][1]
             value == items[i][2]
             new_key == IF prefix # "" THEN prefix \o "_" \o key ELSE key
             step ==
                 IF value.t = "dict"
                 THEN flat_dictionary(value, new_key) @@ result
                 ELSE IF value.t = "list"
                 THEN IF Len(value.elems) = 0 THEN result
                      ELSE IF value.elems[1].t = "dict"
                      THEN flat_list(value.elems, new_key, 1, result)
                      ELSE (new_key :> StrV(JoinStr(value.elems, 1))) @@ result
                 ELSE (new_key :> value) @@ result
         IN flat_items(items, prefix, i + 1, step)
\* the loop over data.items(), from the i-th pair on, result so far given
flat_items(items, prefix, i, result) ==
    IF i > Len(items) THEN result
    ELSE LET key == items[i][1]
             value == items[i][2]
             new_key == IF prefix # "" THEN prefix \o "_" \o key ELSE key
             step ==
                 IF value.t = "dict"
                 THEN flat_dictionary(value, new_key) @@ result
                 ELSE IF value.t = "list"
                 THEN IF Len(value.elems) > 0 /\ value.elems[1].t = "dict"
                      THEN flat_list(value.elems, new_key, 1, result)
                      ELSE (new_key :> StrV(JoinStr(value.elems, 1))) @@ result
                 ELSE (new_key :> value) @@ result
         IN flat_items(items, prefix, i + 1, step)
\* the loop over enumerate(value), from the j-th element on
flat_list(elems, new_key, j, result) ==
    IF j > Len(elems) THEN result
    ELSE flat_list(elems, new_key, j + 1,
             flat_dictionary(elems[j], new_key \o "_" \o ToString(j - 1)) @@ result)

\* dict.get(key): None when the key is absent
DictGet(d, key) == IF key \in DOMAIN d THEN d[key] ELSE NullV

(***************************************************************************)
(* helpers.is_new_data.  A DataFrame is the sequence of its rows, each a   *)
(* flat record; its columns are the keys of all its rows, and a cell that  *)
(* a row does not fill reads as None.                                      *)
(***************************************************************************)
Columns(df) == UNION {DOMAIN df[i] : i \in 1..Len(df)}
\* is_new_data looking at the candidate before df.empty
is_new_data_candidate_first(df, new_data, compare_col) ==
    LET new_data_compare_value == DictGet(new_data, compare_col) IN
    IF ~Truthy(new_data_compare_value) THEN FALSE
    ELSE IF Len(df) = 0 THEN TRUE
    ELSE IF compare_col \notin Columns(df) THEN FALSE
    ELSE PyStr(new_data_compare_value) # PyStr(DictGet(df[Len(df)], compare_col))
\* is_new_data without the two early returns of lines 92-100
is_new_data_no_early_return(df, new_data, compare_col) ==
    IF Len(df) = 0 THEN TRUE
    ELSE PyStr(DictGet(new_data, compare_col))
             # PyStr(DictGet(df[Len(df)], compare_col))
\* is_new_data with the stored value read from the first row, not the last
is_new_data_first_row(df, new_data, compare_col) ==
    IF Len(df) = 0 THEN TRUE
    ELSE LET new_data_compare_value == DictGet(new_data, compare_col) IN
         IF ~Truthy(new_data_compare_value) THEN FALSE
         ELSE IF compare_col \notin Columns(df) THEN FALSE
         ELSE LET last_data_compare_value == DictGet(df[1], compare_col)
              IN PyStr(new_data_compare_value) # PyStr(last_data_compare_value)
is_new_data(df, new_data, compare_col) ==
    IF Len(df) = 0 THEN TRUE
    ELSE LET new_data_compare_value == DictGet(new_data, compare_col) IN
         IF ~Truthy(new_data_compare_value) THEN FALSE
         ELSE IF compare_col \notin Columns(df) THEN FALSE
         ELSE LET last_data_compare_value == DictGet(df[Len(df)], compare_col)
              IN PyStr(new_data_compare_value) # PyStr(last_data_compare_value)

(***************************************************************************)
(* Results of calls.  `calls` are the Drive API requests the call issued,  *)
(* each with its target (a file name or identifier) and how it ended;      *)
(* `drive` is the state of the Drive after it.                             *)
(***************************************************************************)
Call(op, target, outcome) == [op |-> op, target |-> target, outcome |-> outcome]
Return(value) == [raised |-> FALSE, value |-> value]
Raise(exc) == [raised |-> TRUE, exc |-> exc]
Res(value, drv, calls) ==
    [raised |-> FALSE, value |-> value, drive |-> drv, calls |-> calls]
Exc(exc, drv, calls) ==
    [raised |-> TRUE, exc |-> exc, drive |-> drv, calls |-> calls]

(***************************************************************************)
(* flask_responses: the response envelopes.  An envelope is the JSON body  *)
(* and the HTTP status of the FlaskResponse.                               *)
(***************************************************************************)
\* stands for a parameter the call site does not pass
Missing == "<missing>"
\* default of error_response(status=...)
ErrorStatus == 500
\* default of bad_resquest_response(status=...)
BadRequestStatus == 404
\* default of success_response(status=...) and skipped_response(status=...)
OkStatus == 200
\* the statuses is_valid_request passes
MethodNotAllowedStatus == 405
InvalidJsonStatus == 400

\* wix_source_flag has no default: a call without it raises TypeError
error_response(message, wix_source_flag, status) ==
    IF wix_source_flag = Missing THEN Raise("TypeError")
    ELSE Return([body |-> [error |-> message], status |-> status])
bad_resquest_response(message, wix_source_flag, status) ==
    IF wix_source_flag = Missing THEN Raise("TypeError")
    ELSE Return([body |-> [error |-> message], status |-> status])
\* response_body.update(data): the keys of data are added to the body
success_response(message, wix_source_flag, data, status) ==
    IF wix_source_flag = Missing THEN Raise("TypeError")
    ELSE Return([body |-> data @@ [status |-> "success", message |-> message],
                 status |-> status])
skipped_response(message, wix_source_flag, status) ==
    IF wix_source_flag = Missing THEN Raise("TypeError")
    ELSE Return([body |-> [status |-> "skipped", message |-> message],
                 status |-> status])

IsEnvelope(result) == ~result.raised
IsError(result) == ~result.raised /\ "error" \in DOMAIN result.value.body
IsSuccess(result) ==
    /\ ~result.raised
    /\ "status" \in DOMAIN result.value.body
    /\ result.value.body.status = "success"
IsSkipped(result) ==
    /\ ~result.raised
    /\ "status" \in DOMAIN result.value.body
    /\ result.value.body.status = "skipped"

(***************************************************************************)
(* google_toolbox.gdrive.GoogleDrive.  The Drive is a function from file   *)
(* names to the files of that name in creation order, each file being its  *)
(* content; the identifier of a file is made of its name and its rank.     *)
(* Every API request ends in one of three ways: "ok", "http" (the API      *)
(* answers with an HttpError) or "exc" (any other exception: transport,    *)
(* token refresh).  The identifiers the program holds name files that      *)
(* exist: it takes them from the configuration or from the Drive, and no   *)
(* file is ever deleted.                                                   *)
(***************************************************************************)
ApiOutcomes == {"ok", "http", "exc"}
\* Python None where a file identifier is expected
NoneId == "<None>"
FileId(name, i) == name \o "#" \o ToString(i)
FilesNamed(drv, name) == IF name \in DOMAIN drv THEN drv[name] ELSE <<>>
FileExists(drv, file_id) ==
    \E n \in DOMAIN drv : \E i \in 1..Len(drv[n]) : FileId(n, i) = file_id
FileName(drv, file_id) ==
    CHOOSE n \in DOMAIN drv : \E i \in 1..Len(drv[n]) : FileId(n, i) = file_id
FileRank(drv, file_id) ==
    CHOOSE i \in 1..Len(drv[FileName(drv, file_id)]) :
        FileId(FileName(drv, file_id), i) = file_id
FileContent(drv, file_id) == drv[FileName(drv, file_id)][FileRank(drv, file_id)]
\* `if file_id:` is false for None and for ""
TruthyId(file_id) == file_id # NoneId /\ file_id # ""

\* files().list(q = name = file_name ...): items[0]['id'], or None; an
\* HttpError is caught and None returned
get_file_id(drv, file_name, o) ==
    LET items == FilesNamed(drv, file_name)
        calls == <<Call("list", file_name, o)>>
    IN CASE o = "exc" -> Exc("Exception", drv, calls)
         [] o = "http" -> Res(NoneId, drv, calls)
         [] o = "ok" -> Res(IF Len(items) > 0 THEN FileId(file_name, 1) ELSE NoneId,
                            drv, calls)

\* a BytesIO buffer, or None
NoneBuffer == [none |-> TRUE]
Buffer(content) == [none |-> FALSE, content |-> content]

\* get_media + next_chunk: the buffer; an HttpError is caught and None returned
download_file(drv, file_id, o) ==
    LET calls == <<Call("get_media", file_id, o)>>
    IN CASE o = "exc" -> Exc("Exception", drv, calls)
         [] o = "http" -> Res(NoneBuffer, drv, calls)
         [] o = "ok" -> Res(Buffer(FileContent(drv, file_id)), drv, calls)

\* files().update adding the last row of the buffer to the stored content
update_file_from_buffer_merging(drv, file_id, content, o) ==
    LET calls == <<Call("update", file_id, o)>>
        stored == FileContent(drv, file_id)
    IN CASE o = "exc" -> Exc("Exception", drv, calls)
         [] o = "http" -> Res(FALSE, drv, calls)
         [] o = "ok" ->
              Res(TRUE,
                  [drv EXCEPT ![FileName(drv, file_id)][FileRank(drv, file_id)] =
                      IF Len(content) = 0 THEN stored
                      ELSE Append(stored, content[Len(content)])],
                  calls)
\* files().update(fileId, media_body): True; an HttpError is caught and
\* False returned
update_file_from_buffer(drv, file_id, content, o) ==
    LET calls == <<Call("update", file_id, o)>>
    IN CASE o = "exc" -> Exc("Exception", drv, calls)
         [] o = "http" -> Res(FALSE, drv, calls)
         [] o = "ok" ->
              Res(TRUE,
                  [drv EXCEPT ![FileName(drv, file_id)][FileRank(drv, file_id)] = content],
                  calls)

\* upload_buffer(buffer, file_name, drive_folder_id): update the file of
\* that name when get_file_id finds one, else files().create; the except
\* clause catches HttpError only
upload_buffer(drv, content, file_name, oFind, oWrite) ==
    LET found == get_file_id(drv, file_name, oFind) IN
    IF found.raised THEN found
    ELSE IF found.value # NoneId
    THEN LET upd == update_file_from_buffer(drv, found.value, content, oWrite) IN
         IF upd.raised THEN Exc(upd.exc, upd.drive, found.calls \o upd.calls)
         ELSE Res(IF upd.value THEN found.value ELSE NoneId,
                  upd.drive, found.calls \o upd.calls)
    ELSE LET calls == found.calls \o <<Call("create", file_name, oWrite)>> IN
         CASE oWrite = "exc" -> Exc("Exception", drv, calls)
           [] oWrite = "http" -> Res(NoneId, drv, calls)
           [] oWrite = "ok" ->
                Res(FileId(file_name, Len(FilesNamed(drv, file_name)) + 1),
                    [drv EXCEPT ![file_name] = Append(@, content)],
                    calls)

\* file_formats: FileFormats.get_format_class(file_format).extension
Extension(file_format) ==
    CASE file_format = "parquet" -> "parquet"
      [] file_format = "excel" -> "xlsx"

\* upload_df_to_drive(df, file_name, folder_id, file_format, file_id).
\* oName is the outcome of get_file_id(file_name, folder_id), made before
\* the try block when no identifier is given; serialized is whether
\* df.to_parquet / df.to_excel succeeds; inside the try block every
\* exception is re-raised, and the result of update_file_from_buffer is
\* not looked at
upload_df_to_drive(drv, df, file_name, file_format, file_id, oName, serialized, oFind, oWrite) ==
    LET named == IF file_id = NoneId \/ file_id = ""
                 THEN get_file_id(drv, file_name, oName)
                 ELSE Res(file_id, drv, <<>>)
        full_name == file_name \o "." \o Extension(file_format)
    IN IF named.raised THEN named
       ELSE IF ~serialized
       THEN Exc("Exception", drv, Append(named.calls, Call("serialize", file_format, "exc")))
       ELSE IF TruthyId(named.value)
       THEN LET upd == update_file_from_buffer(drv, named.value, df, oWrite) IN
            IF upd.raised THEN Exc(upd.exc, upd.drive, named.calls \o upd.calls)
            ELSE Res(named.value, upd.drive, named.calls \o upd.calls)
       ELSE LET up == upload_buffer(drv, df, full_name, oFind, oWrite) IN
            IF up.raised THEN Exc(up.exc, up.drive, named.calls \o up.calls)
            ELSE Res(up.value, up.drive, named.calls \o up.calls)

(***************************************************************************)
(* google_toolbox.core.GoogleEnv, as load_to_drive builds it:              *)
(* auth_method = "oauth", oauth_token = OAUTH_TOKEN, no json_credentials,  *)
(* no secret store.  A token is whether from_authorized_user_info accepts  *)
(* it, whether it is expired and whether it holds a refresh token.         *)
(***************************************************************************)
Tokens == [parses : BOOLEAN, expired : BOOLEAN, refresh_token : BOOLEAN]
\* __post_init__ -> _load_oauth_credentials with an inline token;
\* refreshed is whether creds.refresh(Request()) succeeds
load_oauth_credentials(oauth_token, refreshed) ==
    IF ~oauth_token.parses THEN Raise("ValueError")
    ELSE LET loaded == [present |-> TRUE, expired |-> oauth_token.expired]
             creds == IF oauth_token.expired /\ oauth_token.refresh_token
                      THEN IF refreshed
                           THEN [present |-> TRUE, expired |-> FALSE]
                           ELSE [present |-> FALSE, expired |-> FALSE]
                      ELSE loaded
             valid == creds.present /\ ~creds.expired
         IN IF ~creds.present \/ ~valid
            THEN Raise("ValueError")
            ELSE Return(creds)

(***************************************************************************)
(* The deployment: the environment variables load_to_drive reads and the   *)
(* payloads Wix posts.                                                     *)
(***************************************************************************)
FILE_NAME == "sales"
FILTER_FIELD == "order_id"
TRIGGER == "T1"
ParquetName == FILE_NAME \o ".parquet"
ExcelName == FILE_NAME \o ".xlsx"
AuditName(reference) == FILE_NAME \o "_" \o reference \o ".json"
Names == {ParquetName, ExcelName, AuditName("flat_data"), AuditName("raw_data")}
AuditIds ==
    {AuditName(r) : r \in {"flat_data", "raw_data"}}
    \cup {FileId(AuditName(r), i) : r \in {"flat_data", "raw_data"}, i \in 1..(MaxInvocations + 1)}

\* a plan-sale event of trigger `trigger` whose order has identifier `id`
Event(trigger, id) ==
    DictV(<< <<"data",
        DictV(<< <<"_context", DictV(<< <<"trigger", DictV(<< <<"key", StrV(trigger)>> >>)>> >>)>>,
                 <<"order", DictV(<< <<"id", StrV(id)>> >>)>> >>)>> >>)
\* an event without the comparison field
EventNoOrder(trigger) ==
    DictV(<< <<"data",
        DictV(<< <<"_context", DictV(<< <<"trigger", DictV(<< <<"key", StrV(trigger)>> >>)>> >>)>> >>)>> >>)
\* the payload of the spec's end-to-end scenario A
ScenarioA ==
    DictV(<< <<"data", DictV(<< <<"order", DictV(<< <<"id", StrV("A1")>> >>)>>,
                                <<"amount", IntV(10)>> >>)>> >>)
Bodies ==
    {Event(TRIGGER, "A1"), Event(TRIGGER, "A2"), EventNoOrder(TRIGGER),
     Event("TX", "A1"), ScenarioA, ListV(<<IntV(1)>>), NullV}
\* json is whether request.get_json() parses the body
Requests ==
    [method : {"POST"}, json : {TRUE}, body : Bodies]
    \cup [method : {"GET"}, json : {TRUE}, body : {Event(TRIGGER, "A1")}]
    \cup [method : {"POST", "GET"}, json : {FALSE}, body : {NullV}]

\* a row the program stored before the first modelled invocation
Row0 ==
    [_context_trigger_key |-> StrV(TRIGGER), order_id |-> StrV("A0"),
     request_date |-> StrV("0")]
NoFiles == [n \in Names |-> <<>>]
InitDrives ==
    {NoFiles,
     [NoFiles EXCEPT ![ParquetName] = << <<Row0>> >>, ![ExcelName] = << <<Row0>> >>]}
\* CONFIG[TRIGGER]: an identifier is "" until the operator fills it in
Configs(drv) ==
    [FILE_NAME : {FILE_NAME}, FILTER_FIELD : {FILTER_FIELD},
     PARQUET_FILE_ID : {""} \cup {FileId(ParquetName, i) : i \in 1..Len(drv[ParquetName])},
     EXCEL_FILE_ID : {""} \cup {FileId(ExcelName, i) : i \in 1..Len(drv[ExcelName])}]

(***************************************************************************)
(* State.                                                                  *)
(*   env    the environment variables                                      *)
(*   drive  the files of the Drive folder                                  *)
(*   inv    per worker, the invocation of load_to_drive it runs: its       *)
(*          program counter, its local variables, and (history) the Drive  *)
(*          it found at its start, the events of its run, and whether it   *)
(*          repeats the request of the invocation completed before it      *)
(*   count  the number of invocations started                              *)
(*   faults the number of collaborator failures so far                     *)
(***************************************************************************)
VARIABLES env, drive, inv, count, faults
vars == <<env, drive, inv, count, faults>>

Procs == {1}

NoRequest == [method |-> "", json |-> FALSE, body |-> NullV]
NoResult == [raised |-> FALSE, pending |-> TRUE]
IdleInv ==
    [pc |-> "idle", request |-> NoRequest,
     data |-> NullV, flat_data |-> EmptyDict, wix_triger |-> NullV,
     file_name |-> "", filter_field |-> "", FOLDER_ID |-> "",
     parquet_file_id |-> NoneId, excel_file_id |-> NoneId,
     json_buffer |-> <<>>, df |-> <<>>, update_df |-> FALSE,
     response |-> [parquet |-> NoneId, excel |-> NoneId],
     result |-> NoResult,
     start |-> NoFiles, trace |-> <<>>, cred |-> FALSE, repeat |-> FALSE]

Init ==
    /\ drive \in InitDrives
    /\ env \in [OAUTH_TOKEN : BOOLEAN, GOOGLE_DRIVE_FOLDER_ID : {"folder", ""},
                CONFIG : {(TRIGGER :> c) : c \in Configs(drive)}]
    /\ inv = [p \in Procs |-> IdleInv]
    /\ count = 0
    /\ faults = 0

\* the events of a run that are Drive API requests
StorageOps == {"list", "get_media", "update", "create"}
\* the events that ended in a failure
Failures(events) == {i \in 1..Len(events) : events[i].outcome # "ok"}
\* the collaborators fail as the outcomes say: every outcome that is a
\* failure shows as an event, and the behaviour stays within MaxFaults
Fails(outcomes, events) ==
    /\ Cardinality({i \in 1..Len(outcomes) : outcomes[i] # "ok"})
           = Cardinality(Failures(events))
    /\ faults + Cardinality(Failures(events)) <= MaxFaults
    /\ faults' = faults + Cardinality(Failures(events))
Flag(b) == IF b THEN "ok" ELSE "exc"

\* a step of an invocation: the local variables after it (with its events
\* added to the history), the Drive after it, and its events
Step(l, drv, events) ==
    [l |-> [l EXCEPT !.trace = @ \o events], drive |-> drv, events |-> events]
\* the invocation ends: by a return of an envelope or by an exception
Finish(l, result) == [l EXCEPT !.pc = "done", !.result = result]
Goto(l, pc) == [l EXCEPT !.pc = pc]

(***************************************************************************)
(* helpers.is_valid_request                                                *)
(***************************************************************************)
is_valid_request(request) ==
    LET not_post == IF request.method # "POST"
                    THEN error_response("Method not allowed. Use POST.", Missing,
                                        MethodNotAllowedStatus)
                    ELSE Return(NullV)
    IN IF not_post.raised THEN not_post
       ELSE IF request.json /\ request.body # NullV
       THEN Return([has_bad |-> FALSE, data |-> request.body])
       ELSE LET bad_response == error_response("Invalid JSON", Missing,
                                               InvalidJsonStatus)
            IN IF bad_response.raised THEN bad_response
               \* get_json raised: `data` is unbound at the final return
               ELSE IF ~request.json THEN Raise("UnboundLocalError")
               ELSE Return([has_bad |-> TRUE, bad_response |-> bad_response.value,
                            data |-> request.body])

(***************************************************************************)
(* main.load_to_drive, one step per statement group.  Each step is an      *)
(* operator on the local variables and the Drive; the actions below apply  *)
(* the steps to the state.                                                 *)
(***************************************************************************)
\* lines 57-59
validate_step(l, drv) ==
    LET r == is_valid_request(l.request) IN
    Step(IF r.raised THEN Finish(l, r)
         ELSE IF r.value.has_bad THEN Finish(l, Return(r.value.bad_response))
         ELSE Goto([l EXCEPT !.data = r.value.data], "flatten"),
         drv, <<>>)

\* data.get('data', {}): the value of the last pair of that key
GetData(data) ==
    LET hits == {i \in 1..Len(data.items) : data.items[i][1] = "data"} IN
    IF hits = {} THEN DictV(<<>>)
    ELSE data.items[CHOOSE i \in hits : \A j \in hits : j <= i][2]

\* lines 62-73.  Line 71 formats str(e), and e is a local variable of
\* load_to_drive no except clause has bound yet: UnboundLocalError
flatten_step(l, drv) ==
    Step(IF l.data.t # "dict" THEN Finish(l, Raise("AttributeError"))
         ELSE IF flat_raises(GetData(l.data)) THEN Finish(l, Raise("AttributeError"))
         ELSE LET flat_data == flat_dictionary(GetData(l.data), "")
                  wix_triger == DictGet(flat_data, "_context_trigger_key")
              IN IF wix_triger = NullV
                 THEN Finish(l, Raise("UnboundLocalError"))
                 ELSE Goto([l EXCEPT !.flat_data = flat_data,
                                     !.wix_triger = wix_triger], "config"),
         drv, <<>>)

\* lines 76-103
config_step(l, drv, environ) ==
    LET flag == PyStr(l.wix_triger)
        known == l.wix_triger.t = "str" /\ l.wix_triger.s \in DOMAIN environ.CONFIG
    IN Step(IF ~environ.OAUTH_TOKEN \/ ~known
            THEN Finish(l, error_response("Failed to load config", flag, ErrorStatus))
            ELSE IF environ.GOOGLE_DRIVE_FOLDER_ID = ""
            THEN Finish(l, error_response("GOOGLE_DRIVE_FOLDER_ID not configured",
                                          flag, ErrorStatus))
            ELSE LET config == environ.CONFIG[l.wix_triger.s] IN
                 Goto([l EXCEPT !.file_name = config.FILE_NAME,
                                !.parquet_file_id = config.PARQUET_FILE_ID,
                                !.excel_file_id = config.EXCEL_FILE_ID,
                                !.filter_field = config.FILTER_FIELD,
                                !.FOLDER_ID = environ.GOOGLE_DRIVE_FOLDER_ID],
                      "credential"),
            drv, <<>>)

\* lines 106-116; built is whether drive_service (build('drive', 'v3'))
\* succeeds
\* lines 106-116 with the except clause only logging: the flow goes on
credential_step_unchecked(l, drv, token, refreshed, built) ==
    LET google_env == load_oauth_credentials(token, refreshed)
        ok == ~google_env.raised /\ built
    IN Step(Goto([l EXCEPT !.cred = ok], "lookup"),
            drv, <<Call("credential", "", Flag(ok))>>)
credential_step(l, drv, token, refreshed, built) ==
    LET google_env == load_oauth_credentials(token, refreshed)
        ok == ~google_env.raised /\ built
    IN Step(IF ~ok
            THEN Finish(l, error_response("Failed to initialize Google Drive",
                                          PyStr(l.wix_triger), ErrorStatus))
            ELSE Goto([l EXCEPT !.cred = TRUE], "lookup"),
            drv, <<Call("credential", "", Flag(ok))>>)

\* lines 119-122: get_file_id catches HttpError only, and the calls are in
\* no try block
lookup_step(l, drv, oParquet, oExcel) ==
    LET a == get_file_id(drv, l.file_name \o ".parquet", oParquet)
        b == get_file_id(drv, l.file_name \o ".xlsx", oExcel)
    IN IF l.parquet_file_id # "" THEN Step(Goto(l, "audit"), drv, <<>>)
       ELSE IF a.raised THEN Step(Finish(l, Raise(a.exc)), drv, a.calls)
       ELSE IF b.raised THEN Step(Finish(l, Raise(b.exc)), drv, a.calls \o b.calls)
       ELSE Step(Goto([l EXCEPT !.parquet_file_id = a.value,
                                !.excel_file_id = b.value], "audit"),
                 drv, a.calls \o b.calls)

\* json.dumps(json_data, indent=2).encode('utf-8'): the bytes of one
\* document, known by the record they serialize
JsonBytes(reference, json_data) == [of |-> reference]

\* lines 125-139 with the except clause returning an error envelope
audit_step_fatal(l, drv, oFind1, oWrite1, oFind2, oWrite2) ==
    LET buffer1 == <<JsonBytes("flat_data", l.flat_data)>>
        first == upload_buffer(drv, buffer1,
                               l.file_name \o "_" \o "flat_data" \o ".json",
                               oFind1, oWrite1)
        buffer2 == Append(buffer1, JsonBytes("raw_data", l.data))
        second == upload_buffer(first.drive, buffer2,
                                l.file_name \o "_" \o "raw_data" \o ".json",
                                oFind2, oWrite2)
        failed == error_response("Failed to upload JSON record",
                                 PyStr(l.wix_triger), ErrorStatus)
    IN IF first.raised
       THEN Step(Finish([l EXCEPT !.json_buffer = buffer1], failed),
                 first.drive, first.calls)
       ELSE IF second.raised
       THEN Step(Finish([l EXCEPT !.json_buffer = buffer2], failed),
                 second.drive, first.calls \o second.calls)
       ELSE Step(Goto([l EXCEPT !.json_buffer = buffer2], "download"),
                 second.drive, first.calls \o second.calls)
\* lines 125-139.  The one json_buffer is written to for each record and
\* never emptied; any exception ends the loop and is only printed
audit_step(l, drv, oFind1, oWrite1, oFind2, oWrite2) ==
    LET buffer1 == <<JsonBytes("flat_data", l.flat_data)>>
        first == upload_buffer(drv, buffer1,
                               l.file_name \o "_" \o "flat_data" \o ".json",
                               oFind1, oWrite1)
        buffer2 == Append(buffer1, JsonBytes("raw_data", l.data))
        second == upload_buffer(first.drive, buffer2,
                                l.file_name \o "_" \o "raw_data" \o ".json",
                                oFind2, oWrite2)
    IN IF first.raised
       THEN Step(Goto([l EXCEPT !.json_buffer = buffer1], "download"),
                 first.drive, first.calls)
       ELSE Step(Goto([l EXCEPT !.json_buffer = buffer2], "download"),
                 second.drive, first.calls \o second.calls)

\* lines 142-172; decoded is whether pd.read_parquet(buffer) succeeds
download_step(l, drv, o, decoded) ==
    LET buffer == download_file(drv, l.parquet_file_id, o)
        failed == error_response("Failed to download parquet",
                                 PyStr(l.wix_triger), ErrorStatus)
    IN IF ~TruthyId(l.parquet_file_id)
       THEN Step(Goto([l EXCEPT !.df = <<>>, !.update_df = TRUE], "append"), drv, <<>>)
       ELSE IF buffer.raised THEN Step(Finish(l, failed), drv, buffer.calls)
       ELSE IF buffer.value.none
       THEN Step(Goto([l EXCEPT !.df = <<>>, !.update_df = TRUE], "append"),
                 drv, buffer.calls)
       ELSE IF ~decoded
       THEN Step(Finish(l, failed), drv,
                 Append(buffer.calls, Call("read_parquet", l.parquet_file_id, "exc")))
       ELSE Step(Goto([l EXCEPT !.df = buffer.value.content,
                                !.update_df = is_new_data(buffer.value.content,
                                                          l.flat_data, l.filter_field)],
                      "append"),
                 drv, buffer.calls)

\* lines 174-187; now is pd.Timestamp.now().strftime('%Y-%m-%d %H:%M:%S')
append_step(l, drv, now) ==
    LET flat_data == ("request_date" :> now) @@ l.flat_data IN
    Step(IF ~l.update_df
         THEN Finish([l EXCEPT !.flat_data = flat_data],
                     skipped_response("Data already exists in file",
                                      PyStr(l.wix_triger), OkStatus))
         ELSE Goto([l EXCEPT !.flat_data = flat_data,
                             !.df = Append(l.df, flat_data)], "parquet"),
         drv, <<>>)

\* lines 195-203, one pass of the comprehension over formats_ids.items();
\* the comprehension is in no try block
upload_step(l, drv, file_format, oName, serialized, oFind, oWrite) ==
    LET file_id == IF file_format = "parquet" THEN l.parquet_file_id
                   ELSE l.excel_file_id
        r == upload_df_to_drive(drv, l.df, l.file_name, file_format, file_id,
                                oName, serialized, oFind, oWrite)
    IN IF r.raised THEN Step(Finish(l, Raise(r.exc)), r.drive, r.calls)
       ELSE Step(Goto([l EXCEPT !.response[file_format] = r.value],
                      IF file_format = "parquet" THEN "excel" ELSE "success"),
                 r.drive, r.calls)

\* lines 205-211
success_step(l, drv) ==
    LET response == l.response @@ [rows |-> Len(l.df)] IN
    Step(Finish(l, success_response("Data added", PyStr(l.wix_triger),
                                    response, OkStatus)),
         drv, <<>>)

\* lines 141-211: the rest of an invocation that has passed the audit
\* upload, the collaborators ending as the record O says and the clock
\* reading now
post_audit_run(l, drv, now, O) ==
    LET start == Step(l, drv, <<>>)
        d == IF l.pc = "download" THEN download_step(l, drv, O.o, O.decoded)
             ELSE start
        a == IF d.l.pc = "append" THEN append_step(d.l, d.drive, now) ELSE d
        u == IF a.l.pc = "parquet"
             THEN upload_step(a.l, a.drive, "parquet", O.pName, O.pSerialized,
                              O.pFind, O.pWrite)
             ELSE a
        x == IF u.l.pc = "excel"
             THEN upload_step(u.l, u.drive, "excel", O.xName, O.xSerialized,
                              O.xFind, O.xWrite)
             ELSE u
    IN IF x.l.pc = "success" THEN success_step(x.l, x.drive) ELSE x

(***************************************************************************)
(* Actions.                                                                *)
(***************************************************************************)
\* the request is the one of the invocation `last`, which met no failure
\* and returned the success or the skipped envelope
Repeats(last, request) ==
    /\ last.pc = "done"
    /\ last.request = request
    /\ Failures(last.trace) = {}
    /\ IsSuccess(last.result) \/ IsSkipped(last.result)

\* a request arrives at an idle worker
Receive(p, request) ==
    /\ inv[p].pc \in {"idle", "done"}
    /\ count < MaxInvocations
    /\ count' = count + 1
    /\ inv' = [inv EXCEPT ![p] =
                  [IdleInv EXCEPT !.pc = "validate", !.request = request,
                                  !.start = drive,
                                  !.repeat = Repeats(inv[p], request)]]
    /\ UNCHANGED <<env, drive, faults>>

\* worker p takes the step r, whose collaborators end as outcomes say
Take(p, r, outcomes) ==
    /\ Fails(outcomes, r.events)
    /\ inv' = [inv EXCEPT ![p] = r.l]
    /\ drive' = r.drive
    /\ UNCHANGED <<env, count>>

\* the clock reads the number of the invocation
Now == StrV(ToString(count))

Validate(p) ==
    /\ inv[p].pc = "validate"
    /\ Take(p, validate_step(inv[p], drive), <<>>)
Flatten(p) ==
    /\ inv[p].pc = "flatten"
    /\ Take(p, flatten_step(inv[p], drive), <<>>)
LoadConfig(p) ==
    /\ inv[p].pc = "config"
    /\ Take(p, config_step(inv[p], drive, env), <<>>)
BuildCredential(p, token, refreshed, built) ==
    /\ inv[p].pc = "credential"
    /\ LET r == credential_step(inv[p], drive, token, refreshed, built)
       IN Take(p, r, <<r.events[1].outcome>>)
Lookup(p, oParquet, oExcel) ==
    /\ inv[p].pc = "lookup"
    /\ Take(p, lookup_step(inv[p], drive, oParquet, oExcel), <<oParquet, oExcel>>)
Audit(p, oFind1, oWrite1, oFind2, oWrite2) ==
    /\ inv[p].pc = "audit"
    /\ Take(p, audit_step(inv[p], drive, oFind1, oWrite1, oFind2, oWrite2),
            <<oFind1, oWrite1, oFind2, oWrite2>>)
Download(p, o, decoded) ==
    /\ inv[p].pc = "download"
    /\ Take(p, download_step(inv[p], drive, o, decoded), <<o, Flag(decoded)>>)
AppendRow(p) ==
    /\ inv[p].pc = "append"
    /\ Take(p, append_step(inv[p], drive, Now), <<>>)
Upload(p, file_format, oName, serialized, oFind, oWrite) ==
    /\ inv[p].pc = file_format
    /\ Take(p, upload_step(inv[p], drive, file_format, oName, serialized, oFind, oWrite),
            <<oName, Flag(serialized), oFind, oWrite>>)
Success(p) ==
    /\ inv[p].pc = "success"
    /\ Take(p, success_step(inv[p], drive), <<>>)

Next ==
    \E p \in Procs :
        \/ \E request \in Requests : Receive(p, request)
        \/ Validate(p)
        \/ Flatten(p)
        \/ LoadConfig(p)
        \/ \E token \in Tokens, refreshed, built \in BOOLEAN :
               BuildCredential(p, token, refreshed, built)
        \/ \E oParquet, oExcel \in ApiOutcomes : Lookup(p, oParquet, oExcel)
        \/ \E oFind1, oWrite1, oFind2, oWrite2 \in ApiOutcomes :
               Audit(p, oFind1, oWrite1, oFind2, oWrite2)
        \/ \E o \in ApiOutcomes, decoded \in BOOLEAN : Download(p, o, decoded)
        \/ AppendRow(p)
        \/ \E file_format \in {"parquet", "excel"}, oName, oFind, oWrite \in ApiOutcomes,
              serialized \in BOOLEAN :
               Upload(p, file_format, oName, serialized, oFind, oWrite)
        \/ Success(p)

Spec == Init /\ [][Next]_vars

(***************************************************************************)
(* What the claims speak of.                                               *)
(***************************************************************************)
DatasetNames == {ParquetName, ExcelName}
\* the rows of the dataset of that name: the first file of the name, which
\* is the one get_file_id finds
StoredRows(drv, name) == IF Len(drv[name]) > 0 THEN drv[name][1] ELSE <<>>
Done(p) == inv[p].pc = "done"
\* the events that write a dataset file, or serialize the dataset for it
IsDatasetTarget(target) ==
    \/ target \in DatasetNames
    \/ \E n \in DatasetNames : \E i \in 1..Len(drive[n]) : target = FileId(n, i)
IsDatasetWrite(e) ==
    \/ e.op \in {"update", "create"} /\ IsDatasetTarget(e.target)
    \/ e.op = "serialize"
StorageEvents(trace) == {i \in 1..Len(trace) : trace[i].op \in StorageOps}
\* new is old, or old followed by exactly one row
SameOrOneMore(old, new) ==
    \/ new = old
    \/ Len(new) = Len(old) + 1 /\ SubSeq(new, 1, Len(old)) = old

\* C1: across the invocations the stored dataset is append-only: after an
\* invocation every dataset file holds the rows it held before it, or those
\* rows followed by exactly one new row.
C1_AppendOnly ==
    \A p \in Procs :
        Done(p) =>
            \A n \in DatasetNames : \A i \in 1..Len(inv[p].start[n]) :
                SameOrOneMore(inv[p].start[n][i], drive[n][i])

\* C2: the same payload posted twice in a row, with no failure in either
\* invocation: the second invocation returns the skipped envelope with
\* status 200, issues no write of a dataset file and leaves both dataset
\* files as they were.
C2_RepeatSkipped ==
    \A p \in Procs :
        (Done(p) /\ inv[p].repeat /\ Failures(inv[p].trace) = {}) =>
            /\ IsSkipped(inv[p].result)
            /\ inv[p].result.value.status = 200
            /\ \A i \in 1..Len(inv[p].trace) : ~IsDatasetWrite(inv[p].trace[i])
            /\ \A n \in DatasetNames : drive[n] = inv[p].start[n]
\* the second of two invocations with one payload has ended, the first
\* having stored the payload's row as the last row of the dataset
C2_Witness ==
    \E p \in Procs :
        /\ Done(p) /\ inv[p].repeat /\ Failures(inv[p].trace) = {}
        /\ count = 2
        /\ IsSkipped(inv[p].result)
        /\ Len(StoredRows(drive, ParquetName)) = 2
        /\ StoredRows(drive, ParquetName)[2].request_date = StrV("1")

\* C3: when the download of a known dataset file fails (the request ends in
\* an error, whether download_file raises it or returns no buffer) or the
\* downloaded file does not decode, the invocation returns an error
\* envelope and both dataset files are left as they were.
C3_DownloadFailureIsFatal ==
    \A p \in Procs :
        (/\ Done(p)
         /\ \E i \in 1..Len(inv[p].trace) :
                /\ inv[p].trace[i].op \in {"get_media", "read_parquet"}
                /\ inv[p].trace[i].outcome # "ok") =>
            /\ IsError(inv[p].result)
            /\ \A n \in DatasetNames : drive[n] = inv[p].start[n]

\* C4: when the payload is judged new and the upload of the parquet or of
\* the excel dataset fails (its serialization, its create or its update),
\* the invocation returns an error envelope.
C4_UploadFailureIsFatal ==
    \A p \in Procs :
        (/\ Done(p)
         /\ inv[p].update_df
         /\ \E i \in 1..Len(inv[p].trace) :
                /\ IsDatasetWrite(inv[p].trace[i])
                /\ inv[p].trace[i].outcome # "ok") =>
            IsError(inv[p].result)

\* C5: every invocation ends by returning a response envelope whose status
\* is one of 200, 400, 404, 405, 500; none ends with an exception.
C5_AlwaysEnvelope ==
    \A p \in Procs :
        Done(p) =>
            /\ IsEnvelope(inv[p].result)
            /\ inv[p].result.value.status \in {200, 400, 404, 405, 500}

\* C6: a request that is not a POST, or whose body does not parse as JSON,
\* is answered with an error envelope of status 400 or 405, no credential
\* having been built and no storage request issued.
C6_InvalidRequestRejected ==
    \A p \in Procs :
        (/\ Done(p)
         /\ inv[p].request.method # "POST" \/ ~inv[p].request.json) =>
            /\ IsError(inv[p].result)
            /\ inv[p].result.value.status \in {400, 405}
            /\ ~inv[p].cred
            /\ StorageEvents(inv[p].trace) = {}

\* C7: in every invocation each storage request (file lookup, download,
\* audit upload, dataset upload) comes after the credential was built with
\* success; and when building the credential fails the invocation has
\* ended with an error envelope and has issued no storage request.
C7_CredentialFirst ==
    \A p \in Procs :
        LET trace == inv[p].trace IN
        /\ \A i \in StorageEvents(trace) :
               \E j \in 1..(i - 1) :
                   trace[j].op = "credential" /\ trace[j].outcome = "ok"
        /\ \A j \in 1..Len(trace) :
               (trace[j].op = "credential" /\ trace[j].outcome # "ok") =>
                   /\ Done(p)
                   /\ IsError(inv[p].result)
                   /\ StorageEvents(trace) = {}
\* an invocation whose credential could not be built has ended
C7_Witness ==
    \E p \in Procs :
        /\ Done(p)
        /\ ~inv[p].cred
        /\ \E j \in 1..Len(inv[p].trace) :
               inv[p].trace[j].op = "credential" /\ inv[p].trace[j].outcome # "ok"
        /\ IsError(inv[p].result)
        /\ inv[p].result.value.status = ErrorStatus

\* how the audit upload's requests end, and how the requests after it end:
\* records of outcomes with at most k failures
AuditOk == [oFind1 |-> "ok", oWrite1 |-> "ok", oFind2 |-> "ok", oWrite2 |-> "ok"]
PostOk ==
    [o |-> "ok", decoded |-> TRUE,
     pName |-> "ok", pSerialized |-> TRUE, pFind |-> "ok", pWrite |-> "ok",
     xName |-> "ok", xSerialized |-> TRUE, xFind |-> "ok", xWrite |-> "ok"]
CodecSlots == {"decoded", "pSerialized", "xSerialized"}
OneMoreFailure(S) ==
    S \cup UNION {{[O EXCEPT ![f] = v] :
                      f \in DOMAIN O \ CodecSlots, v \in ApiOutcomes \ {"ok"}}
                  \cup {[O EXCEPT ![f] = FALSE] : f \in DOMAIN O \cap CodecSlots} :
                  O \in S}
RECURSIVE WithFailures(_, _)
WithFailures(ok, k) ==
    IF k <= 0 THEN {ok} ELSE OneMoreFailure(WithFailures(ok, k - 1))
NumFailures(O) ==
    Cardinality({f \in DOMAIN O \ CodecSlots : O[f] # "ok"})
    + Cardinality({f \in DOMAIN O \cap CodecSlots : ~O[f]})
\* what an invocation comes to: the duplicate decision, the dataset files,
\* the requests issued after the audit upload, and what it returns
Outcome(audited, r) ==
    [update_df |-> r.l.update_df,
     df |-> r.l.df,
     parquet |-> r.drive[ParquetName],
     excel |-> r.drive[ExcelName],
     requests |-> SubSeq(r.l.trace, Len(audited.l.trace) + 1, Len(r.l.trace)),
     pc |-> r.l.pc,
     result |-> r.l.result]
\* the invocation of l on the Drive drv with the audit requests ending as
\* A says and the later ones as O says
AuditedRun(l, drv, now, A, O) ==
    LET audited == audit_step(l, drv, A.oFind1, A.oWrite1, A.oFind2, A.oWrite2)
    IN Outcome(audited, post_audit_run(audited.l, audited.drive, now, O))

\* C8: a failure of an audit upload never changes the outcome.  For an
\* invocation about to upload the audit records, and however the later
\* requests end, the run in which audit requests fail makes the same
\* duplicate decision, leaves the same dataset files, issues the same
\* later requests and returns the same envelope (or ends the same way) as
\* the run in which the audit requests succeed.  (json.dumps of a parsed
\* JSON document does not fail; it sits in the same try block.)
C8_AuditAdvisory ==
    \A p \in Procs :
        inv[p].pc = "audit" =>
            \A A \in WithFailures(AuditOk, MaxFaults - faults) \ {AuditOk} :
                \A O \in WithFailures(PostOk, MaxFaults - faults - NumFailures(A)) :
                    AuditedRun(inv[p], drive, Now, A, O)
                        = AuditedRun(inv[p], drive, Now, AuditOk, O)
\* an invocation in which an audit request failed has gone on to store the
\* row and return the success envelope
C8_Witness ==
    \E p \in Procs :
        /\ Done(p)
        /\ IsSuccess(inv[p].result)
        /\ \E i \in 1..Len(inv[p].trace) :
               /\ inv[p].trace[i].target \in AuditIds
               /\ inv[p].trace[i].outcome # "ok"

\* C9: a valid POST whose payload is judged new is answered with the
\* success envelope of status 200 whose rows field is the number of rows of
\* the dataset stored before the invocation plus one; and the POST of
\* {"data": {"order": {"id": "A1"}, "amount": 10}} against an empty remote
\* dataset is answered with success and rows = 1.
C9_NewPayloadSucceeds ==
    \A p \in Procs :
        /\ (Done(p) /\ inv[p].update_df) =>
               /\ IsSuccess(inv[p].result)
               /\ inv[p].result.value.status = 200
               /\ inv[p].result.value.body.rows
                      = Len(StoredRows(inv[p].start, ParquetName)) + 1
        /\ (/\ Done(p)
            /\ inv[p].request = [method |-> "POST", json |-> TRUE, body |-> ScenarioA]
            /\ \A n \in DatasetNames : inv[p].start[n] = <<>>) =>
               /\ IsSuccess(inv[p].result)
               /\ inv[p].result.value.body.rows = 1

\* C10: after an invocation that returned the success or the skipped
\* envelope, the stored parquet dataset and the stored excel dataset hold
\* the same rows in the same order.
C10_FormatsInSync ==
    \A p \in Procs :
        (Done(p) /\ (IsSuccess(inv[p].result) \/ IsSkipped(inv[p].result))) =>
            StoredRows(drive, ParquetName) = StoredRows(drive, ExcelName)

(***************************************************************************)
(* Two workers.  The platform runs invocations of load_to_drive            *)
(* concurrently; here two workers serve POSTs of one trigger, and no       *)
(* collaborator fails.                                                     *)
(***************************************************************************)
Workers == {1, 2}
ConcurrentRequests ==
    [method : {"POST"}, json : {TRUE},
     body : {Event(TRIGGER, "A1"), Event(TRIGGER, "A2")}]
ValidTokens == {t \in Tokens : t.parses /\ ~t.expired}
ConcurrentInit ==
    /\ drive \in InitDrives
    /\ env \in [OAUTH_TOKEN : {TRUE}, GOOGLE_DRIVE_FOLDER_ID : {"folder"},
                CONFIG : {(TRIGGER :> c) : c \in Configs(drive)}]
    /\ inv = [p \in Workers |-> IdleInv]
    /\ count = 0
    /\ faults = 0
ConcurrentNext ==
    \E p \in Workers :
        \/ \E request \in ConcurrentRequests : Receive(p, request)
        \/ Validate(p)
        \/ Flatten(p)
        \/ LoadConfig(p)
        \/ \E token \in ValidTokens : BuildCredential(p, token, TRUE, TRUE)
        \/ Lookup(p, "ok", "ok")
        \/ Audit(p, "ok", "ok", "ok", "ok")
        \/ Download(p, "ok", TRUE)
        \/ AppendRow(p)
        \/ \E file_format \in {"parquet", "excel"} :
               Upload(p, file_format, "ok", TRUE, "ok", "ok")
        \/ Success(p)
ConcurrentSpec == ConcurrentInit /\ [][ConcurrentNext]_vars

\* the dataset an invocation read, and the row it added to it
PriorRows(l) == SubSeq(l.df, 1, Len(l.df) - 1)
OwnRow(l) == l.df[Len(l.df)]
HoldsRowOf(rows, l) ==
    \E i \in 1..Len(rows) : rows[i].order_id = OwnRow(l).order_id
\* workers p and q have both returned the success envelope for payloads
\* of different order identifiers, having read the same prior dataset
BothSucceededOnSameRead(p, q) ==
    /\ p # q
    /\ inv[p].pc = "done" /\ inv[q].pc = "done"
    /\ IsSuccess(inv[p].result) /\ IsSuccess(inv[q].result)
    /\ PriorRows(inv[p]) = PriorRows(inv[q])
    /\ OwnRow(inv[p]).order_id # OwnRow(inv[q]).order_id

\* C11: no locking protects the dataset.  Whenever two concurrent
\* invocations of one trigger with different comparison values have read
\* the same prior dataset and both returned the success envelope, the
\* stored dataset holds the row of only one of them; the state in which
\* this has happened is reachable (C11_Witness).
C11_LostUpdate ==
    \A p, q \in Workers :
        BothSucceededOnSameRead(p, q) =>
            LET stored == StoredRows(drive, ParquetName) IN
            /\ Len(stored) = Len(PriorRows(inv[p])) + 1
            /\ ~(HoldsRowOf(stored, inv[p]) /\ HoldsRowOf(stored, inv[q]))
\* both workers returned success with rows = 2 over a stored dataset of
\* one row, and the stored dataset has two rows, the second being q's
C11_Witness ==
    \E p, q \in Workers :
        /\ BothSucceededOnSameRead(p, q)
        /\ PriorRows(inv[p]) = <<Row0>>
        /\ inv[p].result.value.body.rows = 2
        /\ inv[q].result.value.body.rows = 2
        /\ StoredRows(drive, ParquetName) = inv[q].df
        /\ ~HoldsRowOf(StoredRows(drive, ParquetName), inv[p])

\* the trigger classification of a request's flattened payload (NullV
\* when it has none)
TriggerOf(request) ==
    DictGet(flat_dictionary(GetData(request.body), ""), "_context_trigger_key")
\* a POST of a JSON object whose payload flattens
Flattens(request) ==
    /\ request.method = "POST" /\ request.json
    /\ request.body.t = "dict"
    /\ ~flat_raises(GetData(request.body))

\* C12: when the flattened payload holds no _context_trigger_key, or the
\* configuration has no entry for its trigger, the invocation returns an
\* error envelope, no credential having been built and no storage request
\* issued.
C12_TriggerRequired ==
    \A p \in Procs :
        (/\ Done(p)
         /\ Flattens(inv[p].request)
         /\ LET trigger == TriggerOf(inv[p].request) IN
            \/ trigger = NullV
            \/ trigger.t = "str" /\ trigger.s \notin DOMAIN env.CONFIG) =>
            /\ IsError(inv[p].result)
            /\ ~inv[p].cred
            /\ StorageEvents(inv[p].trace) = {}

(***************************************************************************)
(* helpers.is_new_data applied to datasets of at most MaxRows rows.  The   *)
(* worker holds the arguments in the local variables load_to_drive passes  *)
(* (df, flat_data, filter_field) and the returned value in update_df.  No  *)
(* candidate value reads "None" or "nan", the str() of an unfilled cell.   *)
(***************************************************************************)
CompareCols == {"order_id", "amount"}
SampleRows ==
    {[order_id |-> StrV("A1")], [order_id |-> StrV("5")], [order_id |-> IntV(5)],
     [amount |-> IntV(10)]}
Candidates ==
    SampleRows \cup
    {[order_id |-> IntV(0)], [order_id |-> StrV("")], [order_id |-> NullV],
     [order_id |-> StrV("A1"), amount |-> IntV(7)]}
RECURSIVE DataFrames(_)
DataFrames(n) ==
    IF n = 0 THEN {<<>>}
    ELSE DataFrames(n - 1)
         \cup {Append(df, row) : df \in {d \in DataFrames(n - 1) : Len(d) = n - 1},
                                 row \in SampleRows}
CompareInit ==
    /\ drive = NoFiles
    /\ env = [OAUTH_TOKEN |-> TRUE, GOOGLE_DRIVE_FOLDER_ID |-> "folder",
              CONFIG |-> EmptyDict]
    /\ inv \in [Procs ->
                  {[IdleInv EXCEPT !.pc = "compare", !.df = df, !.flat_data = c,
                                   !.filter_field = col] :
                      df \in DataFrames(MaxRows), c \in Candidates,
                      col \in CompareCols}]
    /\ count = 0
    /\ faults = 0
\* update_df = is_new_data(df, flat_data, filter_field)
Compare(p) ==
    /\ inv[p].pc = "compare"
    /\ inv' = [inv EXCEPT ![p].pc = "compared",
                          ![p].update_df = is_new_data(inv[p].df, inv[p].flat_data,
                                                       inv[p].filter_field),
                          ![p].result = Return(NullV)]
    /\ UNCHANGED <<env, drive, count, faults>>
CompareNext == \E p \in Procs : Compare(p)
CompareSpec == CompareInit /\ [][CompareNext]_vars

Compared(p) == inv[p].pc = "compared"
CandidateValue(p) == DictGet(inv[p].flat_data, inv[p].filter_field)
LastValue(p) == DictGet(inv[p].df[Len(inv[p].df)], inv[p].filter_field)
SameString(p) == PyStr(CandidateValue(p)) = PyStr(LastValue(p))

\* C13: for every dataset of at least one row, every candidate and every
\* comparison field, is_new_data returns False if and only if
\* the str() of the candidate's value equals the str() of the last row's.
C13_FalseIffSameString ==
    \A p \in Procs :
        (Compared(p) /\ Len(inv[p].df) >= 1) =>
            (~inv[p].update_df <=> SameString(p))

\* C14: is_new_data returns True for every empty dataset, whatever the
\* candidate holds, a candidate without the comparison field included.
C14_EmptyDatasetIsNew ==
    \A p \in Procs :
        (Compared(p) /\ Len(inv[p].df) = 0) => inv[p].update_df
\* a candidate without the comparison field was judged new against the
\* empty dataset
C14_Witness ==
    \E p \in Procs :
        /\ Compared(p) /\ Len(inv[p].df) = 0
        /\ inv[p].filter_field \notin DOMAIN inv[p].flat_data
        /\ inv[p].update_df

\* C15: for a dataset of at least one row, is_new_data returns False, and
\* raises nothing, whenever the candidate has no comparison field or an
\* empty value (None, "") in it, or the dataset has no such column.
C15_AbsentIsNotNew ==
    \A p \in Procs :
        (/\ Compared(p) /\ Len(inv[p].df) >= 1
         /\ \/ CandidateValue(p) \in {NullV, StrV("")}
            \/ inv[p].filter_field \notin Columns(inv[p].df)) =>
            /\ ~inv[p].result.raised
            /\ ~inv[p].update_df
\* a candidate holding the comparison field was judged not new against a
\* dataset without that column
C15_Witness ==
    \E p \in Procs :
        /\ Compared(p) /\ Len(inv[p].df) >= 1
        /\ Truthy(CandidateValue(p))
        /\ inv[p].filter_field \notin Columns(inv[p].df)
        /\ ~inv[p].result.raised
        /\ ~inv[p].update_df

(***************************************************************************)
(* helpers.flat_dictionary applied to nested payloads of at most MaxKeys   *)
(* top-level keys, and then to its own output.  The worker holds the       *)
(* payload in data, the flat record in flat_data and the outcome of the    *)
(* last call in result.                                                    *)
(***************************************************************************)
KeyNames == <<"a", "b", "c", "d">>
TopKeys == {KeyNames[i] : i \in 1..MaxKeys}
Leaf == DictV(<< <<"k", StrV("x")>> >>)
PayloadValues ==
    {StrV("x"), IntV(1), NullV,
     DictV(<<>>), Leaf,
     ListV(<<>>), ListV(<<StrV("x"), IntV(1)>>),
     ListV(<< DictV(<<>>) >>),
     ListV(<<Leaf, DictV(<< <<"k", IntV(1)>> >>)>>),
     ListV(<<Leaf, IntV(1)>>),
     ListV(<<IntV(1), Leaf>>),
     DictV(<< <<"n", DictV(<<>>)>> >>),
     DictV(<< <<"n", Leaf>>, <<"m", IntV(1)>> >>),
     DictV(<< <<"n", ListV(<<Leaf, IntV(1)>>)>> >>)}
KeysOf(items) == {items[i][1] : i \in 1..Len(items)}
RECURSIVE PayloadItems(_)
PayloadItems(n) ==
    IF n = 0 THEN {<<>>}
    ELSE PayloadItems(n - 1)
         \cup UNION {{Append(items, <<k, v>>) :
                         k \in TopKeys \ KeysOf(items), v \in PayloadValues} :
                     items \in {s \in PayloadItems(n - 1) : Len(s) = n - 1}}
Payloads == {DictV(items) : items \in PayloadItems(MaxKeys)}
\* a flat record read as a payload: its pairs, in some order
RECURSIVE ItemsOf(_, _)
ItemsOf(flat, keys) ==
    IF keys = {} THEN <<>>
    ELSE LET k == CHOOSE x \in keys : TRUE
         IN <<<<k, flat[k]>>>> \o ItemsOf(flat, keys \ {k})
AsPayload(flat) == DictV(ItemsOf(flat, DOMAIN flat))
\* flat_dictionary(data) as a call: the flat record, or AttributeError
call_flat_dictionary(data) ==
    IF flat_raises(data) THEN Raise("AttributeError")
    ELSE Return(flat_dictionary(data, ""))

FlattenInit ==
    /\ drive = NoFiles
    /\ env = [OAUTH_TOKEN |-> TRUE, GOOGLE_DRIVE_FOLDER_ID |-> "folder",
              CONFIG |-> EmptyDict]
    /\ inv \in [Procs -> {[IdleInv EXCEPT !.pc = "payload", !.data = d] :
                             d \in Payloads}]
    /\ count = 0
    /\ faults = 0
\* flat_data = flat_dictionary(data)
FlattenPayload(p) ==
    /\ inv[p].pc = "payload"
    /\ LET r == call_flat_dictionary(inv[p].data) IN
       inv' = [inv EXCEPT ![p].pc = "flat",
                          ![p].result = r,
                          ![p].flat_data = IF r.raised THEN EmptyDict ELSE r.value]
    /\ UNCHANGED <<env, drive, count, faults>>
\* flat_dictionary(flat_data)
FlattenAgain(p) ==
    /\ inv[p].pc = "flat"
    /\ ~inv[p].result.raised
    /\ inv' = [inv EXCEPT ![p].pc = "reflat",
                          ![p].result = call_flat_dictionary(AsPayload(inv[p].flat_data))]
    /\ UNCHANGED <<env, drive, count, faults>>
FlattenNext == \E p \in Procs : FlattenPayload(p) \/ FlattenAgain(p)
FlattenSpec == FlattenInit /\ [][FlattenNext]_vars

\* C16: for every payload on which flat_dictionary returns, applying it
\* to its own output returns that output again.
C16_FlattenIdempotent ==
    \A p \in Procs :
        inv[p].pc = "reflat" =>
            /\ ~inv[p].result.raised
            /\ inv[p].result.value = inv[p].flat_data
\* the flat record of a payload with a nested mapping and a list of
\* mappings was flattened again
C16_Witness ==
    \E p \in Procs :
        /\ inv[p].pc = "reflat"
        /\ {"a_n_k", "b_1_k"} \subseteq DOMAIN inv[p].flat_data
        /\ ~inv[p].result.raised
        /\ inv[p].result.value = inv[p].flat_data

\* C17: flat_dictionary has no failure mode: for every nested payload of
\* mappings, sequences and scalars, a sequence mixing mappings and other
\* elements included, it returns a flat record and raises nothing.
C17_FlattenNeverRaises ==
    \A p \in Procs :
        inv[p].pc = "flat" => ~inv[p].result.raised

\* the keys one top-level pair of a payload gives the flat record
Contribution(pair) == DOMAIN flat_dictionary(DictV(<<pair>>), "")
\* the value holds a leaf: a scalar, a sequence that is empty or does not
\* start with a mapping, or a mapping or sequence of mappings holding one
RECURSIVE HasLeaf(_)
HasLeaf(value) ==
    CASE value.t = "dict" ->
           \E i \in 1..Len(value.items) : HasLeaf(value.items[i][2])
      [] value.t = "list" ->
           IF Len(value.elems) > 0 /\ value.elems[1].t = "dict"
           THEN \E j \in 1..Len(value.elems) : HasLeaf(value.elems[j])
           ELSE TRUE
      [] OTHER -> TRUE
Flattened(p) == inv[p].pc = "flat" /\ ~inv[p].result.raised

\* C18: every top-level key of a payload contributes at least one key to
\* the flat record, the keys whose value is an empty mapping, an empty
\* sequence or a sequence of empty mappings included.
C18_EveryKeyContributes ==
    \A p \in Procs :
        Flattened(p) =>
            \A i \in 1..Len(inv[p].data.items) :
                /\ Contribution(inv[p].data.items[i]) # {}
                /\ Contribution(inv[p].data.items[i]) \subseteq DOMAIN inv[p].flat_data
\* C18 amended: a top-level key contributes at least one key to the flat
\* record exactly when its value holds a leaf (a scalar, or a sequence
\* that is empty or does not start with a mapping); the key of an empty
\* mapping or of a sequence of empty mappings contributes none.
C18_KeysWithLeafContribute ==
    \A p \in Procs :
        Flattened(p) =>
            \A i \in 1..Len(inv[p].data.items) :
                /\ Contribution(inv[p].data.items[i]) # {}
                       <=> HasLeaf(inv[p].data.items[i][2])
                /\ Contribution(inv[p].data.items[i]) \subseteq DOMAIN inv[p].flat_data
\* a payload with an empty sequence under one key and an empty mapping
\* under the other was flattened to the single key of the sequence
C18_Witness ==
    \E p \in Procs :
        /\ Flattened(p)
        /\ inv[p].data = DictV(<< <<"a", ListV(<<>>)>>, <<"b", DictV(<<>>)>> >>)
        /\ DOMAIN inv[p].flat_data = {"a"}

(***************************************************************************)
(* google_toolbox.core.GoogleEnv with auth_method = "oauth", in full: the  *)
(* inline token or the cached token file, the refresh with its push to     *)
(* Secret Manager, and the interactive grant flow.  A GoogleEnv is the     *)
(* record of its fields and of the token file at its token_path; a token   *)
(* (inline or cached) is one of Tokens, NoToken when there is none.  The   *)
(* events of a build are the refresh, the add_secret_version request, the  *)
(* write of the token file and the grant flow.                             *)
(***************************************************************************)
NoToken == [none |-> TRUE]
NoCreds ==
    [present |-> FALSE, token |-> FALSE, expired |-> FALSE, refresh_token |-> FALSE]
\* the authorized-user info of a token: whether it holds the fields
\* from_authorized_user_info requires, an access token ("token"), an expiry
\* in the past, and a refresh token
AuthorizedUsers ==
    [parses : BOOLEAN, token : BOOLEAN, expired : BOOLEAN, refresh_token : BOOLEAN]
GoogleEnvs ==
    [oauth_token : AuthorizedUsers \cup {NoToken},
     json_credentials : BOOLEAN,
     token_file : AuthorizedUsers \cup {NoToken},
     secret_project_id : {"", "project"},
     secret_name : {"", "secret"}]
\* OAuthCredentials.from_authorized_user_info / _file
CredsOf(token) ==
    [present |-> TRUE, token |-> token.token, expired |-> token.expired,
     refresh_token |-> token.refresh_token]
\* google.oauth2.credentials.Credentials.valid
Valid(creds) == creds.present /\ creds.token /\ ~creds.expired
\* the messages of the two ValueErrors of lines 252-256
TokenExpired == "OAuth token is expired and refresh failed. Please generate a new token."
ClientFileRequired == "OAuth requires a client credentials JSON file for the initial flow."

\* refresh_and_update_token applied to a different pair of conditions:
\* the push is made when the project alone is configured
refresh_and_update_token_project_only(creds, project_id, secret_name, refreshed, pushed) ==
    IF ~refreshed
    THEN [raised |-> TRUE, exc |-> "RefreshError",
          calls |-> <<Call("refresh", "", "exc")>>]
    ELSE [raised |-> FALSE, value |-> [creds EXCEPT !.token = TRUE, !.expired = FALSE],
          calls |-> <<Call("refresh", "", "ok")>>
                    \o IF project_id # ""
                       THEN <<Call("add_secret_version", secret_name, Flag(pushed))>>
                       ELSE <<>>]
\* refresh_and_update_token letting the failure of the push reach the
\* outer handler, which raises it again
refresh_and_update_token_push_fatal(creds, project_id, secret_name, refreshed, pushed) ==
    IF ~refreshed
    THEN [raised |-> TRUE, exc |-> "RefreshError",
          calls |-> <<Call("refresh", "", "exc")>>]
    ELSE IF project_id # "" /\ secret_name # ""
    THEN IF pushed
         THEN [raised |-> FALSE, value |-> [creds EXCEPT !.token = TRUE, !.expired = FALSE],
               calls |-> <<Call("refresh", "", "ok"),
                           Call("add_secret_version", secret_name, "ok")>>]
         ELSE [raised |-> TRUE, exc |-> "Exception",
               calls |-> <<Call("refresh", "", "ok"),
                           Call("add_secret_version", secret_name, "exc")>>]
    ELSE [raised |-> FALSE, value |-> [creds EXCEPT !.token = TRUE, !.expired = FALSE],
          calls |-> <<Call("refresh", "", "ok")>>]
\* lines 49-111: creds.refresh(Request()); then, when both project_id and
\* secret_name are given, add_secret_version, whose failure is only
\* printed; a failure of the refresh is raised again
refresh_and_update_token(creds, project_id, secret_name, refreshed, pushed) ==
    IF ~refreshed
    THEN [raised |-> TRUE, exc |-> "RefreshError",
          calls |-> <<Call("refresh", "", "exc")>>]
    ELSE [raised |-> FALSE, value |-> [creds EXCEPT !.token = TRUE, !.expired = FALSE],
          calls |-> <<Call("refresh", "", "ok")>>
                    \o IF project_id # "" /\ secret_name # ""
                       THEN <<Call("add_secret_version", secret_name, Flag(pushed))>>
                       ELSE <<>>]

\* the credential flow.run_local_server returns
GrantedCreds ==
    [present |-> TRUE, token |-> TRUE, expired |-> FALSE, refresh_token |-> TRUE]
\* _load_oauth_credentials refreshing every token that holds a refresh
\* token, expired or not
GoogleEnv_load_oauth_credentials_eager(g, refreshed, pushed, written, granted) ==
    LET inline == g.oauth_token # NoToken
        token_path == ~inline
        cached == token_path /\ g.token_file # NoToken
        loaded == IF inline THEN CredsOf(g.oauth_token)
                  ELSE IF cached /\ g.token_file.parses THEN CredsOf(g.token_file)
                  ELSE NoCreds
        needs == loaded.present /\ loaded.refresh_token
        r == refresh_and_update_token(loaded, g.secret_project_id, g.secret_name,
                                      refreshed, pushed)
        write == <<Call("write_token_file", "", Flag(written))>>
        after == IF ~needs THEN [creds |-> loaded, calls |-> <<>>]
                 ELSE IF r.raised THEN [creds |-> NoCreds, calls |-> r.calls]
                 ELSE IF ~cached THEN [creds |-> r.value, calls |-> r.calls]
                 ELSE [creds |-> IF written THEN r.value ELSE NoCreds,
                       calls |-> r.calls \o write]
        flow == Append(after.calls, Call("run_local_server", "", Flag(granted)))
    IN IF inline /\ ~g.oauth_token.parses
       THEN [raised |-> TRUE, exc |-> "ValueError", message |-> "", calls |-> <<>>]
       ELSE IF Valid(after.creds)
       THEN [raised |-> FALSE, value |-> after.creds, calls |-> after.calls]
       ELSE IF ~g.json_credentials
       THEN [raised |-> TRUE, exc |-> "ValueError",
             message |-> IF inline THEN TokenExpired ELSE ClientFileRequired,
             calls |-> after.calls]
       ELSE IF ~granted
       THEN [raised |-> TRUE, exc |-> "Exception", message |-> "", calls |-> flow]
       ELSE IF ~written
       THEN [raised |-> TRUE, exc |-> "OSError", message |-> "", calls |-> flow \o write]
       ELSE [raised |-> FALSE, value |-> GrantedCreds, calls |-> flow \o write]
\* _load_oauth_credentials storing the credential it holds after the
\* refresh without the check of line 248
GoogleEnv_load_oauth_credentials_unchecked(g, refreshed, pushed, written, granted) ==
    LET inline == g.oauth_token # NoToken
        token_path == ~inline
        cached == token_path /\ g.token_file # NoToken
        loaded == IF inline THEN CredsOf(g.oauth_token)
                  ELSE IF cached /\ g.token_file.parses THEN CredsOf(g.token_file)
                  ELSE NoCreds
        needs == loaded.present /\ loaded.expired /\ loaded.refresh_token
        r == refresh_and_update_token(loaded, g.secret_project_id, g.secret_name,
                                      refreshed, pushed)
        write == <<Call("write_token_file", "", Flag(written))>>
        after == IF ~needs THEN [creds |-> loaded, calls |-> <<>>]
                 ELSE IF r.raised THEN [creds |-> NoCreds, calls |-> r.calls]
                 ELSE IF ~cached THEN [creds |-> r.value, calls |-> r.calls]
                 ELSE [creds |-> IF written THEN r.value ELSE NoCreds,
                       calls |-> r.calls \o write]
    IN IF inline /\ ~g.oauth_token.parses
       THEN [raised |-> TRUE, exc |-> "ValueError", message |-> "", calls |-> <<>>]
       ELSE [raised |-> FALSE, value |-> after.creds, calls |-> after.calls]

\* lines 200-272.  refreshed, pushed, written and granted are whether
\* creds.refresh, add_secret_version, the write of the token file and
\* flow.run_local_server succeed
GoogleEnv_load_oauth_credentials(g, refreshed, pushed, written, granted) ==
    LET inline == g.oauth_token # NoToken
        token_path == ~inline
        cached == token_path /\ g.token_file # NoToken
        loaded == IF inline THEN CredsOf(g.oauth_token)
                  ELSE IF cached /\ g.token_file.parses THEN CredsOf(g.token_file)
                  ELSE NoCreds
        needs == loaded.present /\ loaded.expired /\ loaded.refresh_token
        r == refresh_and_update_token(loaded, g.secret_project_id, g.secret_name,
                                      refreshed, pushed)
        write == <<Call("write_token_file", "", Flag(written))>>
        after == IF ~needs THEN [creds |-> loaded, calls |-> <<>>]
                 ELSE IF r.raised THEN [creds |-> NoCreds, calls |-> r.calls]
                 ELSE IF ~cached THEN [creds |-> r.value, calls |-> r.calls]
                 ELSE [creds |-> IF written THEN r.value ELSE NoCreds,
                       calls |-> r.calls \o write]
        flow == Append(after.calls, Call("run_local_server", "", Flag(granted)))
    IN IF inline /\ ~g.oauth_token.parses
       THEN [raised |-> TRUE, exc |-> "ValueError", message |-> "", calls |-> <<>>]
       ELSE IF Valid(after.creds)
       THEN [raised |-> FALSE, value |-> after.creds, calls |-> after.calls]
       ELSE IF ~g.json_credentials
       THEN [raised |-> TRUE, exc |-> "ValueError",
             message |-> IF inline THEN TokenExpired ELSE ClientFileRequired,
             calls |-> after.calls]
       ELSE IF ~granted
       THEN [raised |-> TRUE, exc |-> "Exception", message |-> "", calls |-> flow]
       ELSE IF ~written
       THEN [raised |-> TRUE, exc |-> "OSError", message |-> "", calls |-> flow \o write]
       ELSE [raised |-> FALSE, value |-> GrantedCreds, calls |-> flow \o write]

\* lines 146-189: __post_init__; info is whether _get_creds_info returns
\* (with no inline token it reads and parses the client file or the
\* GOOGLE_CREDENTIALS variable)
GoogleEnv_post_init(g, info, refreshed, pushed, written, granted) ==
    IF g.oauth_token = NoToken /\ ~info
    THEN [raised |-> TRUE, exc |-> "JSONDecodeError", message |-> "", calls |-> <<>>]
    ELSE GoogleEnv_load_oauth_credentials(g, refreshed, pushed, written, granted)

CredentialInit ==
    /\ drive = NoFiles
    /\ env \in GoogleEnvs
    /\ inv = [p \in Procs |-> [IdleInv EXCEPT !.pc = "google_env"]]
    /\ count = 0
    /\ faults = 0
\* GoogleEnv(auth_method = "oauth", ...) with the fields of env
BuildGoogleEnv(p, info, refreshed, pushed, written, granted) ==
    /\ inv[p].pc = "google_env"
    /\ LET r == GoogleEnv_post_init(env, info, refreshed, pushed, written, granted) IN
       inv' = [inv EXCEPT ![p].pc = "built",
                          ![p].trace = r.calls,
                          ![p].cred = ~r.raised,
                          ![p].result = IF r.raised
                                        THEN [raised |-> TRUE, exc |-> r.exc,
                                              message |-> r.message]
                                        ELSE Return(r.value)]
    /\ UNCHANGED <<env, drive, count, faults>>
CredentialNext ==
    \E p \in Procs : \E info, refreshed, pushed, written, granted \in BOOLEAN :
        BuildGoogleEnv(p, info, refreshed, pushed, written, granted)
CredentialSpec == CredentialInit /\ [][CredentialNext]_vars

Built(p) == inv[p].pc = "built"
EventsOf(trace, op) == {i \in 1..Len(trace) : trace[i].op = op}
\* the token the build loads: the inline one, else the cached one
LoadedToken(g) ==
    IF g.oauth_token # NoToken THEN g.oauth_token ELSE g.token_file

\* C19: building a GoogleEnv with an inline token that is valid and not
\* expired yields a usable credential, with no refresh, no push to the
\* secret store, no write of the token file and no grant flow.
C19_ValidInlineTokenNoEffects ==
    \A p \in Procs :
        (/\ Built(p)
         /\ env.oauth_token # NoToken
         /\ env.oauth_token.parses
         /\ env.oauth_token.token /\ ~env.oauth_token.expired) =>
            /\ ~inv[p].result.raised
            /\ Valid(inv[p].result.value)
            /\ inv[p].trace = <<>>
\* a GoogleEnv was built from a valid inline token that holds a refresh
\* token, with a client file, a cached token file and the secret store all
\* configured
C19_Witness ==
    \E p \in Procs :
        /\ Built(p)
        /\ env.oauth_token # NoToken
        /\ env.oauth_token.parses
        /\ env.oauth_token.token /\ ~env.oauth_token.expired
        /\ env.oauth_token.refresh_token
        /\ env.json_credentials /\ env.token_file # NoToken
        /\ env.secret_project_id # "" /\ env.secret_name # ""
        /\ inv[p].cred /\ inv[p].trace = <<>>

\* C20: building from a token that is expired and holds a refresh token
\* (the build having read its credentials info and so reached the token)
\* makes exactly one refresh attempt; after a successful refresh the push
\* to the secret store is attempted if and only if secret_project_id and
\* secret_name are both configured, and after a failed one never.
C20_OneRefreshThenPush ==
    \A p \in Procs :
        LET token == LoadedToken(env)
            trace == inv[p].trace
        IN (/\ Built(p)
            /\ token # NoToken
            /\ token.parses /\ token.expired /\ token.refresh_token
            /\ ~(inv[p].result.raised /\ inv[p].result.exc = "JSONDecodeError")) =>
               /\ Cardinality(EventsOf(trace, "refresh")) = 1
               /\ trace[1].op = "refresh"
               /\ trace[1].outcome = "ok" =>
                      (EventsOf(trace, "add_secret_version") # {}
                          <=> env.secret_project_id # "" /\ env.secret_name # "")
               /\ trace[1].outcome # "ok" => EventsOf(trace, "add_secret_version") = {}
               /\ Cardinality(EventsOf(trace, "add_secret_version")) <= 1
\* an expired inline token was refreshed and pushed to the secret store
C20_Witness ==
    \E p \in Procs :
        /\ Built(p)
        /\ env.oauth_token # NoToken
        /\ env.oauth_token.parses /\ env.oauth_token.expired
        /\ env.oauth_token.refresh_token
        /\ inv[p].cred
        /\ Len(inv[p].trace) = 2
        /\ inv[p].trace[1] = Call("refresh", "", "ok")
        /\ inv[p].trace[2].op = "add_secret_version"

\* the events of a trace with operation op and outcome o
OutcomesOf(trace, op, o) ==
    {i \in EventsOf(trace, op) : trace[i].outcome = o}
C22_ExpiredTokenError ==
    \A p \in Procs :
        LET token == LoadedToken(env) IN
        (/\ Built(p)
         /\ token # NoToken
         /\ token.parses /\ token.expired /\ ~token.refresh_token
         /\ ~env.json_credentials
         /\ ~(inv[p].result.raised /\ inv[p].result.exc = "JSONDecodeError")) =>
            /\ inv[p].result.raised
            /\ inv[p].result.exc = "ValueError"
            /\ inv[p].result.message = TokenExpired

\* C27: whenever the construction of an oauth GoogleEnv completes without
\* raising, the stored credential is present and valid, and it is the
\* loaded token that was valid as loaded, or the loaded token after a
\* successful refresh, or the credential of the grant flow; a token that
\* is invalid after loading or refreshing is never stored.
C27_StoredCredentialValid ==
    \A p \in Procs :
        LET token == LoadedToken(env)
            trace == inv[p].trace
            creds == inv[p].result.value
        IN (Built(p) /\ ~inv[p].result.raised) =>
               /\ inv[p].cred
               /\ creds.present /\ Valid(creds)
               /\ \/ /\ token # NoToken
                     /\ Valid(CredsOf(token))
                     /\ creds = CredsOf(token)
                     /\ trace = <<>>
                  \/ /\ token # NoToken
                     /\ OutcomesOf(trace, "refresh", "ok") # {}
                     /\ EventsOf(trace, "run_local_server") = {}
                     /\ creds = [CredsOf(token) EXCEPT !.token = TRUE, !.expired = FALSE]
                  \/ /\ OutcomesOf(trace, "run_local_server", "ok") # {}
                     /\ creds = GrantedCreds
\* an inline token that is not expired but carries no access token, and so
\* is invalid as loaded, was not stored: the grant flow ran and its
\* credential was stored instead
C27_Witness ==
    \E p \in Procs :
        /\ Built(p)
        /\ env.oauth_token # NoToken
        /\ env.oauth_token.parses
        /\ ~env.oauth_token.token /\ ~env.oauth_token.expired
        /\ ~inv[p].result.raised
        /\ inv[p].result.value = GrantedCreds
        /\ inv[p].trace = <<Call("run_local_server", "", "ok"),
                            Call("write_token_file", "", "ok")>>

(***************************************************************************)
(* google_toolbox.core.GoogleEnv with auth_method = "service_account":     *)
(* _get_creds_info and _load_service_account_credentials.  The content of  *)
(* a source is the text it holds: nothing, the empty JSON object, text     *)
(* that is not JSON, or a service-account document named after the source  *)
(* that holds it.                                                          *)
(***************************************************************************)
Unset == ""
EmptyDoc == "{}"
BadDoc == "{"
Contents(doc) == {Unset, EmptyDoc, BadDoc, doc}
\* env_path: not given, a path to no file, or an env-file with the
\* content of its GOOGLE_CREDENTIALS variable
EnvPaths ==
    {[given |-> FALSE, exists |-> FALSE, var |-> Unset],
     [given |-> TRUE, exists |-> FALSE, var |-> Unset]}
    \cup {[given |-> TRUE, exists |-> TRUE, var |-> c] : c \in Contents("envfile_doc")}
\* json_credentials: not given, a path to no file, or a file with its content
JsonCredentials ==
    {[given |-> FALSE, exists |-> FALSE, content |-> Unset],
     [given |-> TRUE, exists |-> FALSE, content |-> Unset]}
    \cup {[given |-> TRUE, exists |-> TRUE, content |-> c] :
            c \in Contents("file_doc") \ {Unset}}
ServiceAccountEnvs ==
    [auth_method : {"service_account"},
     env_path : EnvPaths,
     json_credentials : JsonCredentials,
     environ : Contents("environ_doc")]
\* the messages of the ValueErrors of lines 175 and 195
NotFoundInEnvPath == "'GOOGLE_CREDENTIALS' not found in env_path"
NotSetOrEmpty == "Environment variable 'GOOGLE_CREDENTIALS' not set or empty for Service Account"
IdentityError(exc, message) == [raised |-> TRUE, exc |-> exc, message |-> message]
\* json.loads / json.load
json_loads(text) ==
    IF text = BadDoc \/ text = Unset THEN IdentityError("JSONDecodeError", "")
    ELSE Return(text)
\* lines 34-46: the variables of the env-file when it exists, else those
\* of the process environment
get_env_vars(g) ==
    IF g.env_path.given /\ g.env_path.exists THEN g.env_path.var ELSE g.environ

\* lines 163-189, for auth_method service_account
GoogleEnv_get_creds_info(g) ==
    IF g.env_path.given
    THEN LET creds_info == get_env_vars(g) IN
         IF creds_info # Unset THEN json_loads(creds_info)
         ELSE IdentityError("ValueError", NotFoundInEnvPath)
    ELSE IF g.json_credentials.given
    THEN IF ~g.json_credentials.exists THEN IdentityError("FileNotFoundError", "")
         ELSE json_loads(g.json_credentials.content)
    ELSE IF g.environ = Unset THEN Return(EmptyDoc)
    ELSE json_loads(g.environ)
\* lines 191-198; accepted is whether from_service_account_info accepts
\* the document
GoogleEnv_load_service_account_credentials(creds_info, accepted) ==
    IF creds_info = EmptyDoc THEN IdentityError("ValueError", NotSetOrEmpty)
    ELSE IF ~accepted THEN IdentityError("ValueError", "")
    ELSE Return([info |-> creds_info])
\* lines 146-161, for auth_method service_account
GoogleEnv_post_init_service_account(g, accepted) ==
    LET creds_info == GoogleEnv_get_creds_info(g) IN
    IF creds_info.raised THEN creds_info
    ELSE GoogleEnv_load_service_account_credentials(creds_info.value, accepted)

IdentityInit ==
    /\ drive = NoFiles
    /\ env \in ServiceAccountEnvs
    /\ inv = [p \in Procs |-> [IdleInv EXCEPT !.pc = "google_env"]]
    /\ count = 0
    /\ faults = 0
\* GoogleEnv(auth_method = "service_account", ...) with the fields of env
BuildServiceAccount(p, accepted) ==
    /\ inv[p].pc = "google_env"
    /\ LET r == GoogleEnv_post_init_service_account(env, accepted) IN
       inv' = [inv EXCEPT ![p].pc = "built",
                          ![p].cred = ~r.raised,
                          ![p].result = r]
    /\ UNCHANGED <<env, drive, count, faults>>
IdentityNext ==
    \E p \in Procs : \E accepted \in BOOLEAN : BuildServiceAccount(p, accepted)
IdentitySpec == IdentityInit /\ [][IdentityNext]_vars

\* the text a source yields: of json_credentials, of the env-sourced
\* document (the env-file when env_path names one, else the environment)
FileDocument(g) ==
    IF g.json_credentials.given /\ g.json_credentials.exists
    THEN g.json_credentials.content ELSE Unset
EnvDocument(g) == get_env_vars(g)
IsDocument(text) == text \notin {Unset, EmptyDoc, BadDoc}
NoDocument(text) == text \in {Unset, EmptyDoc}
MissingIdentity(result) ==
    /\ result.raised
    /\ result.exc = "ValueError"
    /\ result.message \in {NotFoundInEnvPath, NotSetOrEmpty}

\* C23: for auth_method service_account, when both the named local file
\* and the env-sourced document hold a document, the credential is built
\* from the document of the named local file (or that document is turned
\* down by from_service_account_info); and when no source holds a
\* non-empty document the build fails with a missing-identity error.
C23_LocalFileBeforeEnvironment ==
    \A p \in Procs :
        Built(p) =>
            /\ (IsDocument(FileDocument(env)) /\ IsDocument(EnvDocument(env))) =>
                    IF inv[p].result.raised
                    THEN inv[p].result.exc = "ValueError" /\ inv[p].result.message = ""
                    ELSE inv[p].result.value.info = FileDocument(env)
            /\ (/\ NoDocument(FileDocument(env))
                /\ NoDocument(EnvDocument(env))
                /\ NoDocument(env.environ)
                /\ ~(env.json_credentials.given /\ ~env.json_credentials.exists)) =>
                    MissingIdentity(inv[p].result)

(***************************************************************************)
(* response_handler.handle_response: the unified handler that routes a     *)
(* status code to one of the four response functions, which                *)
(* response_handler defines as flask_responses does.                       *)
(***************************************************************************)
\* the keys of RESPONSE_HANDLER_MAP
SupportedCodes == {200, 201, 400, 404, 406, 409, 500}
\* RESPONSE_HANDLER_MAP[status], by the name of the function
RESPONSE_HANDLER_MAP(status) ==
    CASE status = 200 -> "skipped_response"
      [] status = 201 -> "success_response"
      [] status \in {400, 404} -> "bad_resquest_response"
      [] status \in {406, 409, 500} -> "error_response"
\* the data argument: None, or a dict
NoneData == [given |-> FALSE, dict |-> EmptyDict]
DataArgs ==
    {NoneData, [given |-> TRUE, dict |-> EmptyDict],
     [given |-> TRUE, dict |-> [parquet_file_id |-> "id1"]]}
\* lines 103-132
handle_response(message, wix_source_flag, status, data) ==
    IF status \notin SupportedCodes
    THEN error_response("Unknown status code: " \o ToString(status) \o ". " \o message,
                        wix_source_flag, status)
    ELSE LET handler_func == RESPONSE_HANDLER_MAP(status) IN
         IF handler_func = "success_response" /\ data.given
         THEN success_response(message, wix_source_flag, data.dict, status)
         ELSE IF handler_func = "success_response"
         THEN success_response(message, wix_source_flag, EmptyDict, status)
         ELSE IF handler_func = "skipped_response"
         THEN skipped_response(message, wix_source_flag, status)
         ELSE IF handler_func = "bad_resquest_response"
         THEN bad_resquest_response(message, wix_source_flag, status)
         ELSE error_response(message, wix_source_flag, status)

\* the status codes handle_response is called with
StatusCodes == SupportedCodes \cup {100, 204, 302, 401, 403, 405, 418, 503}
HandleArgs ==
    [message : {"done", "failed"}, wix_source_flag : {TRIGGER, "UNKNOWN"},
     status : StatusCodes, data : DataArgs]
ResponseInit ==
    /\ drive = NoFiles
    /\ env = [OAUTH_TOKEN |-> TRUE, GOOGLE_DRIVE_FOLDER_ID |-> "folder",
              CONFIG |-> EmptyDict]
    /\ inv \in [Procs ->
                  {[IdleInv EXCEPT !.pc = "respond", !.request = args] :
                      args \in HandleArgs}]
    /\ count = 0
    /\ faults = 0
\* handle_response(message, wix_source_flag, status, data)
HandleResponse(p) ==
    /\ inv[p].pc = "respond"
    /\ LET a == inv[p].request IN
       inv' = [inv EXCEPT ![p].pc = "responded",
                          ![p].result = handle_response(a.message, a.wix_source_flag,
                                                        a.status, a.data)]
    /\ UNCHANGED <<env, drive, count, faults>>
ResponseNext == \E p \in Procs : HandleResponse(p)
ResponseSpec == ResponseInit /\ [][ResponseNext]_vars

Responded(p) == inv[p].pc = "responded"
\* the response is one the named response function produces
ProducedBy(handler_func, result) ==
    CASE handler_func = "skipped_response" -> IsSkipped(result)
      [] handler_func = "success_response" -> IsSuccess(result)
      [] OTHER -> IsError(result)

\* C24: handle_response raises ValueError for every status code outside
\* {200, 201, 400, 404, 406, 409, 500}, and for every code of that set
\* returns a response of the function mapped to the code, with exactly
\* that HTTP status.
C24_UnsupportedStatusRaises ==
    \A p \in Procs :
        Responded(p) =>
            LET status == inv[p].request.status IN
            IF status \notin SupportedCodes
            THEN inv[p].result.raised /\ inv[p].result.exc = "ValueError"
            ELSE /\ ~inv[p].result.raised
                 /\ ProducedBy(RESPONSE_HANDLER_MAP(status), inv[p].result)
                 /\ inv[p].result.value.status = status

\* the audit records stored in the Drive for `reference`
AuditRecords(reference) == FilesNamed(drive, AuditName(reference))
\* C25: the two audit records of load_to_drive are uploaded as separate
\* records, each holding exactly the serialization of its own payload:
\* the record of the raw payload holds nothing of the flattened payload
\* and the record of the flattened payload nothing of the raw payload.
C25_AuditRecordsSeparate ==
    \A reference \in {"flat_data", "raw_data"} :
        \A i \in 1..Len(AuditRecords(reference)) :
            /\ Len(AuditRecords(reference)[i]) = 1
            /\ \A k \in 1..Len(AuditRecords(reference)[i]) :
                   AuditRecords(reference)[i][k].of = reference

\* C26: after any sequence of sequential invocations for one trigger the
\* folder holds at most one parquet dataset file and at most one excel
\* dataset file: an existing file is updated in place, and a file is
\* created only when none of its name exists.
C26_OneFilePerFormat ==
    \A n \in DatasetNames : Len(drive[n]) <= 1
====
